---------------------------- MODULE Spec2Model ----------------------------
(***************************************************************************)
(* Model of GromacsWrapper's tool registry (gromacs/tools.py) and of the   *)
(* Kubernetes mdrun runner (gromacs/k8s.py).                               *)
(*                                                                         *)
(* Python strings are sequences of one-character strings, so that          *)
(* capitalize(), replace(), split(), startswith() and the slicing in the   *)
(* "gmx help commands" parser are computed and not assumed.  Python dicts  *)
(* are sequences of [key, cls] entries in insertion order.                 *)
(***************************************************************************)
EXTENDS Integers, Sequences, FiniteSets, TLC

VARIABLES
    config,     \* gromacs.config: MAJOR_RELEASE, tool names, extra tools, append_suffix
    environ,    \* os.environ["GMXBIN"] directory and what each driver's "help commands" does
    registry,   \* gromacs.tools.registry
    loaders,    \* the loader functions the module-level code has called, in order
    pc,         \* position of the module-level code of tools.py
    error,      \* exception that left the module-level code, or None
    runner,     \* an MDrunnerK8s instance and the calls made on it
    cluster,    \* Kubernetes control plane: the jobs that exist and whether their pod is ready
    multi,      \* a GromacsCommandMultiIndex command and the calls it made
    release,    \* a Release instance and what its observers returned
    ident       \* a tool name and the identifier derived from it

vars == << config, environ, registry, loaders, pc, error,
           runner, cluster, multi, release, ident >>

toolsvars == << config, environ, registry, loaders, pc, error >>
k8svars == << runner, cluster >>

-----------------------------------------------------------------------------
(* Python values *)

None == << "None" >>

Min(S) == CHOOSE x \in S : \A y \in S : x <= y

lower_letters ==
  << "a","b","c","d","e","f","g","h","i","j","k","l","m",
     "n","o","p","q","r","s","t","u","v","w","x","y","z" >>

upper_letters ==
  << "A","B","C","D","E","F","G","H","I","J","K","L","M",
     "N","O","P","Q","R","S","T","U","V","W","X","Y","Z" >>

digits == << "0","1","2","3","4","5","6","7","8","9" >>

LetterIndex(c, letters) ==
    IF \E i \in 1..Len(letters) : letters[i] = c
    THEN CHOOSE i \in 1..Len(letters) : letters[i] = c
    ELSE 0

\* str.upper() / str.lower() of one character
upper(c) ==
    LET i == LetterIndex(c, lower_letters) IN IF i = 0 THEN c ELSE upper_letters[i]

lower(c) ==
    LET i == LetterIndex(c, upper_letters) IN IF i = 0 THEN c ELSE lower_letters[i]

\* str.lower()
str_lower(s) == [i \in 1..Len(s) |-> lower(s[i])]

\* str.capitalize(): first character upper case, the rest lower case
capitalize(s) == [i \in 1..Len(s) |-> IF i = 1 THEN upper(s[i]) ELSE lower(s[i])]

\* str.replace(old, new) for one-character old and new
replace(s, old, new) == [i \in 1..Len(s) |-> IF s[i] = old THEN new ELSE s[i]]

occurs_at(s, sub, i) ==
    /\ i >= 1
    /\ i + Len(sub) - 1 <= Len(s)
    /\ \A k \in 1..Len(sub) : s[i + k - 1] = sub[k]

\* str.find(sub, start) with 1-based positions; 0 when sub does not occur
find(s, sub, start) ==
    LET hits == { i \in start..(Len(s) - Len(sub) + 1) : occurs_at(s, sub, i) }
    IN  IF hits = {} THEN 0 ELSE Min(hits)

\* str.startswith(prefix)
startswith(s, prefix) == occurs_at(s, prefix, 1)

\* str.endswith(suffix)
endswith(s, suffix) == occurs_at(s, suffix, Len(s) - Len(suffix) + 1)

\* split_item1 as s.partition(sep)[2] would behave: no IndexError, "" when
\* sep does not occur
split_item1_lenient(s, sep) ==
    LET i == find(s, sep, 1) IN
    IF i = 0 THEN [IndexError |-> FALSE, value |-> << >>]
    ELSE LET rest == SubSeq(s, i + Len(sep), Len(s))
             j    == find(rest, sep, 1)
         IN  [IndexError |-> FALSE,
              value |-> IF j = 0 THEN rest ELSE SubSeq(rest, 1, j - 1)]

\* s.split(sep)[1]: the text between the first and the second occurrence of
\* sep; IndexError when sep does not occur in s
split_item1(s, sep) ==
    LET i == find(s, sep, 1) IN
    IF i = 0 THEN [IndexError |-> TRUE, value |-> << >>]
    ELSE LET rest == SubSeq(s, i + Len(sep), Len(s))
             j    == find(rest, sep, 1)
         IN  [IndexError |-> FALSE,
              value |-> IF j = 0 THEN rest ELSE SubSeq(rest, 1, j - 1)]

\* s.partition(sep)[2]: the text after the first sep, "" when there is none
partition_tail(s, sep) ==
    LET i == find(s, sep, 1) IN
    IF i = 0 THEN << >> ELSE SubSeq(s, i + Len(sep), Len(s))

\* a for loop over positions lo..hi: step(acc, k) for k = lo, lo+1, ..., hi,
\* each round starting from what the round before left
RECURSIVE for_range(_, _, _, _)
for_range(step(_, _), acc, lo, hi) ==
    IF lo > hi THEN acc
    ELSE IF lo = hi THEN step(acc, lo)
    ELSE LET mid == (lo + hi) \div 2 IN
         CHOOSE result \in { for_range(step, left, mid + 1, hi) :
                                 left \in { for_range(step, acc, lo, mid) } } : TRUE

-----------------------------------------------------------------------------
(* dicts in insertion order: sequences of [key |-> k, cls |-> v] *)

dict_keys(d) == { d[i].key : i \in 1..Len(d) }

dict_has(d, k) == \E i \in 1..Len(d) : d[i].key = k

dict_get(d, k) == d[CHOOSE i \in 1..Len(d) : d[i].key = k].cls

\* d[k] = v: an existing key keeps its position
dict_set(d, k, v) ==
    IF dict_has(d, k)
    THEN [i \in 1..Len(d) |-> IF d[i].key = k THEN [key |-> k, cls |-> v] ELSE d[i]]
    ELSE Append(d, [key |-> k, cls |-> v])

-----------------------------------------------------------------------------
(* tools.py: constants *)

V4TOOLS ==
  << <<"g", "_", "c", "l", "u", "s", "t", "e", "r">>,
     <<"g", "_", "d", "y", "n", "d", "o", "m">>,
     <<"g", "_", "m", "d", "m", "a", "t">>,
     <<"g", "_", "p", "r", "i", "n", "c", "i", "p", "a", "l">>,
     <<"g", "_", "s", "e", "l", "e", "c", "t">>,
     <<"g", "_", "w", "h", "a", "m">>,
     <<"m", "d", "r", "u", "n">>,
     <<"d", "o", "_", "d", "s", "s", "p">>,
     <<"g", "_", "c", "l", "u", "s", "t", "s", "i", "z", "e">>,
     <<"g", "_", "e", "n", "e", "m", "a", "t">>,
     <<"g", "_", "m", "e", "m", "b", "e", "d">>,
     <<"g", "_", "p", "r", "o", "t", "o", "n", "a", "t", "e">>,
     <<"g", "_", "s", "g", "a", "n", "g", "l", "e">>,
     <<"g", "_", "w", "h", "e", "e", "l">>,
     <<"m", "d", "r", "u", "n", "_", "d">>,
     <<"e", "d", "i", "t", "c", "o", "n", "f">>,
     <<"g", "_", "c", "o", "n", "f", "r", "m", "s">>,
     <<"g", "_", "e", "n", "e", "r", "g", "y">>,
     <<"g", "_", "m", "i", "n", "d", "i", "s", "t">>,
     <<"g", "_", "r", "a", "m", "a">>,
     <<"g", "_", "s", "h", "a", "m">>,
     <<"g", "_", "x", "2", "t", "o", "p">>,
     <<"m", "k", "_", "a", "n", "g", "n", "d", "x">>,
     <<"e", "n", "e", "c", "o", "n", "v">>,
     <<"g", "_", "c", "o", "v", "a", "r">>,
     <<"g", "_", "f", "i", "l", "t", "e", "r">>,
     <<"g", "_", "m", "o", "r", "p", "h">>,
     <<"g", "_", "r", "d", "f">>,
     <<"g", "_", "s", "i", "g", "e", "p", "s">>,
     <<"g", "e", "n", "b", "o", "x">>,
     <<"p", "d", "b", "2", "g", "m", "x">>,
     <<"g", "_", "a", "n", "a", "d", "o", "c", "k">>,
     <<"g", "_", "c", "u", "r", "r", "e", "n", "t">>,
     <<"g", "_", "g", "y", "r", "a", "t", "e">>,
     <<"g", "_", "m", "s", "d">>,
     <<"g", "_", "s", "o", "r", "i", "e", "n", "t">>,
     <<"g", "e", "n", "c", "o", "n", "f">>,
     <<"g", "_", "a", "n", "a", "e", "i", "g">>,
     <<"g", "_", "d", "e", "n", "s", "i", "t", "y">>,
     <<"g", "_", "h", "2", "o", "r", "d", "e", "r">>,
     <<"g", "_", "n", "m", "e", "i", "g">>,
     <<"g", "_", "r", "m", "s">>,
     <<"g", "_", "s", "p", "a", "t", "i", "a", "l">>,
     <<"g", "e", "n", "i", "o", "n">>,
     <<"t", "p", "b", "c", "o", "n", "v">>,
     <<"g", "_", "a", "n", "a", "l", "y", "z", "e">>,
     <<"g", "_", "d", "e", "n", "s", "m", "a", "p">>,
     <<"g", "_", "h", "b", "o", "n", "d">>,
     <<"g", "_", "n", "m", "e", "n", "s">>,
     <<"g", "_", "r", "m", "s", "d", "i", "s", "t">>,
     <<"g", "_", "s", "p", "o", "l">>,
     <<"g", "e", "n", "r", "e", "s", "t", "r">>,
     <<"t", "r", "j", "c", "a", "t">>,
     <<"g", "_", "a", "n", "g", "l", "e">>,
     <<"g", "_", "d", "i", "e", "l", "e", "c", "t", "r", "i", "c">>,
     <<"g", "_", "h", "e", "l", "i", "x">>,
     <<"g", "_", "n", "m", "t", "r", "a", "j">>,
     <<"g", "_", "r", "m", "s", "f">>,
     <<"g", "_", "t", "c", "a", "f">>,
     <<"g", "m", "x", "c", "h", "e", "c", "k">>,
     <<"t", "r", "j", "c", "o", "n", "v">>,
     <<"g", "_", "b", "a", "r">>,
     <<"g", "_", "d", "i", "h">>,
     <<"g", "_", "h", "e", "l", "i", "x", "o", "r", "i", "e", "n", "t">>,
     <<"g", "_", "o", "r", "d", "e", "r">>,
     <<"g", "_", "r", "o", "t", "a", "c", "f">>,
     <<"g", "_", "t", "r", "a", "j">>,
     <<"g", "m", "x", "d", "u", "m", "p">>,
     <<"t", "r", "j", "o", "r", "d", "e", "r">>,
     <<"g", "_", "b", "o", "n", "d">>,
     <<"g", "_", "d", "i", "p", "o", "l", "e", "s">>,
     <<"g", "_", "k", "i", "n", "e", "t", "i", "c", "s">>,
     <<"g", "_", "p", "m", "e", "_", "e", "r", "r", "o", "r">>,
     <<"g", "_", "r", "o", "t", "m", "a", "t">>,
     <<"g", "_", "t", "u", "n", "e", "_", "p", "m", "e">>,
     <<"g", "r", "o", "m", "p", "p">>,
     <<"g", "_", "b", "u", "n", "d", "l", "e">>,
     <<"g", "_", "d", "i", "s", "r", "e">>,
     <<"g", "_", "l", "i", "e">>,
     <<"g", "_", "p", "o", "l", "y", "s", "t", "a", "t">>,
     <<"g", "_", "s", "a", "l", "t", "b", "r">>,
     <<"g", "_", "v", "a", "n", "h", "o", "v", "e">>,
     <<"m", "a", "k", "e", "_", "e", "d", "i">>,
     <<"x", "p", "m", "2", "p", "s">>,
     <<"g", "_", "c", "h", "i">>,
     <<"g", "_", "d", "i", "s", "t">>,
     <<"g", "_", "l", "u", "c", "k">>,
     <<"g", "_", "p", "o", "t", "e", "n", "t", "i", "a", "l">>,
     <<"g", "_", "s", "a", "s">>,
     <<"g", "_", "v", "e", "l", "a", "c", "c">>,
     <<"m", "a", "k", "e", "_", "n", "d", "x">> >>

NAMES5TO4 ==
  << <<<<"g", "r", "o", "m", "p", "p">>, <<"g", "r", "o", "m", "p", "p">>>>,
     <<<<"e", "n", "e", "c", "o", "n", "v">>, <<"e", "n", "e", "c", "o", "n", "v">>>>,
     <<<<"e", "d", "i", "t", "c", "o", "n", "f">>, <<"e", "d", "i", "t", "c", "o", "n", "f">>>>,
     <<<<"p", "d", "b", "2", "g", "m", "x">>, <<"p", "d", "b", "2", "g", "m", "x">>>>,
     <<<<"t", "r", "j", "c", "a", "t">>, <<"t", "r", "j", "c", "a", "t">>>>,
     <<<<"t", "r", "j", "c", "o", "n", "v">>, <<"t", "r", "j", "c", "o", "n", "v">>>>,
     <<<<"t", "r", "j", "o", "r", "d", "e", "r">>, <<"t", "r", "j", "o", "r", "d", "e", "r">>>>,
     <<<<"x", "p", "m", "2", "p", "s">>, <<"x", "p", "m", "2", "p", "s">>>>,
     <<<<"m", "d", "r", "u", "n">>, <<"m", "d", "r", "u", "n">>>>,
     <<<<"m", "a", "k", "e", "_", "n", "d", "x">>, <<"m", "a", "k", "e", "_", "n", "d", "x">>>>,
     <<<<"m", "a", "k", "e", "_", "e", "d", "i">>, <<"m", "a", "k", "e", "_", "e", "d", "i">>>>,
     <<<<"g", "e", "n", "r", "e", "s", "t", "r">>, <<"g", "e", "n", "r", "e", "s", "t", "r">>>>,
     <<<<"g", "e", "n", "i", "o", "n">>, <<"g", "e", "n", "i", "o", "n">>>>,
     <<<<"g", "e", "n", "c", "o", "n", "f">>, <<"g", "e", "n", "c", "o", "n", "f">>>>,
     <<<<"d", "o", "_", "d", "s", "s", "p">>, <<"d", "o", "_", "d", "s", "s", "p">>>>,
     <<<<"c", "o", "n", "v", "e", "r", "t", "-", "t", "p", "r">>, <<"t", "p", "b", "c", "o", "n", "v">>>>,
     <<<<"d", "u", "m", "p">>, <<"g", "m", "x", "d", "u", "m", "p">>>>,
     <<<<"c", "h", "e", "c", "k">>, <<"g", "m", "x", "c", "h", "e", "c", "k">>>>,
     <<<<"s", "o", "l", "v", "a", "t", "e">>, <<"g", "e", "n", "b", "o", "x">>>>,
     <<<<"d", "i", "s", "t", "a", "n", "c", "e">>, <<"g", "_", "d", "i", "s", "t">>>>,
     <<<<"s", "a", "s", "a">>, <<"g", "_", "s", "a", "s">>>>,
     <<<<"g", "a", "n", "g", "l", "e">>, <<"g", "_", "s", "g", "a", "n", "g", "l", "e">>>> >>

\* the releases for which the module-level code calls load_v5_tools directly
V5_RELEASES == { "5", "2016", "2018", "2019", "2020", "2021", "2022", "2023" }

\* the executables find_executables leaves out
EXCLUDED_EXECUTABLES ==
  { <<"G","M","X","R","C">>,
    <<"G","M","X","R","C",".","b","a","s","h">>,
    <<"G","M","X","R","C",".","c","s","h">>,
    <<"G","M","X","R","C",".","z","s","h">>,
    <<"d","e","m","u","x",".","p","l">>,
    <<"x","p","l","o","r","2","g","m","x",".","p","l">> }

\* the drivers load_v5_tools falls back to
DEFAULT_DRIVERS ==
  << <<"g","m","x">>, <<"g","m","x","_","d">>,
     <<"g","m","x","_","m","p","i">>, <<"g","m","x","_","m","p","i","_","d">> >>

\* more configured drivers than this and load_v5_tools uses DEFAULT_DRIVERS
MAX_DRIVERS == 4

\* "help commands" output: lines before the first tool line, and after the last
HELP_HEADER_LINES == 5
HELP_FOOTER_LINES == 1
\* 0-based column at which a tool name starts
HELP_NAME_COLUMN == 4

-----------------------------------------------------------------------------
(* tools.py: functions *)

\* tool_factory(clsname, name, driver, base): the generated class
tool_factory(clsname, name, driver, base) ==
    [clsname |-> clsname, command_name |-> name, driver |-> driver, base |-> base]

make_valid_identifier(name) == capitalize(replace(name, "-", "_"))

\* find_executables(path): path is a directory listing of
\* [name, x_ok, isdir] entries
find_executables(path) ==
    LET keep(e) == e.x_ok /\ ~e.isdir /\ e.name \notin EXCLUDED_EXECUTABLES
        scan(execs, k) == IF keep(path[k]) THEN Append(execs, path[k].name) ELSE execs
    IN  for_range(scan, << >>, 1, Len(path))

\* the candidate names both loaders start from: config.get_tool_names(), or
\* the executables of $GMXBIN when that is empty and GMXBIN is set
candidate_names(cfg, env) ==
    IF Len(cfg.tool_names) = 0 /\ env.GMXBIN # None
    THEN find_executables(env.GMXBIN)
    ELSE cfg.tool_names

\* the tool name on one line of "gmx help commands", None when the line has none
line_tool_name(line) ==
    LET c == HELP_NAME_COLUMN + 1 IN
    IF /\ Len(line) > HELP_NAME_COLUMN
       /\ line[c] # " "
       /\ find(line, << " " >>, c) # 0
    THEN SubSeq(line, c, find(line, << " " >>, c) - 1)
    ELSE None

\* line.decode("ascii") succeeds
is_ascii(line) == \A k \in 1..Len(line) : line[k] # "\\xc3"

\* the addressable name of a tool that a driver reports
v5_fancy(name, suffix, append) ==
    IF suffix # << >> /\ append
    THEN make_valid_identifier(name) \o << "_" >> \o suffix
    ELSE make_valid_identifier(name)

\* the inner loop of load_v5_tools over out.splitlines()[5:-1]
parse_help(tools, out, driver, append) ==
    LET suffix == partition_tail(driver, << "_" >>)
        first  == HELP_HEADER_LINES + 1
        last   == Len(out) - HELP_FOOTER_LINES
        line(sofar, k) ==
                 IF sofar.raised # None THEN sofar
                 ELSE IF ~is_ascii(out[k])
                 THEN [raised |-> << "UnicodeDecodeError" >>, tools |-> sofar.tools]
                 ELSE LET name == line_tool_name(out[k]) IN
                      IF name = None THEN sofar
                      ELSE LET fancy == v5_fancy(name, suffix, append)
                           IN  [raised |-> None,
                                tools |-> dict_set(sofar.tools, fancy,
                                             tool_factory(fancy, name, driver, "GromacsCommand"))]
    IN  for_range(line, [raised |-> None, tools |-> tools], first, last)
\* subprocess.check_output([driver, "-quiet", "help", "commands"]): the
\* environment says, per driver, whether the call raises and what it prints;
\* a driver the environment does not know is not on the PATH
check_output(env, driver) ==
    IF driver \in DOMAIN env.help
    THEN env.help[driver]
    ELSE [raises |-> << "OSError" >>, out |-> << >>]

\* the list of drivers load_v5_tools probes
v5_drivers(cfg, env) ==
    LET drivers == candidate_names(cfg, env) IN
    IF Len(drivers) = 0 \/ Len(drivers) > MAX_DRIVERS THEN DEFAULT_DRIVERS ELSE drivers

\* one round of "for driver in drivers": CalledProcessError and OSError are
\* swallowed, whatever else the body raises leaves the function
probe_driver(sofar, env, driver, append) ==
    LET run == check_output(env, driver) IN
    IF sofar.raised # None THEN sofar
    ELSE IF run.raises # None THEN sofar
    ELSE parse_help(sofar.tools, run.out, driver, append)

\* "for driver in drivers" of load_v5_tools
probe_drivers(drivers, env, append) ==
    LET probe(sofar, k) == probe_driver(sofar, env, drivers[k], append)
    IN  for_range(probe, [raised |-> None, tools |-> << >>], 1, Len(drivers))

load_v5_tools(cfg, env) ==
    LET found == probe_drivers(v5_drivers(cfg, env), env, cfg.append_suffix)
    IN  IF found.raised # None THEN [raised |-> found.raised, tools |-> << >>]
        ELSE IF Len(found.tools) = 0
        THEN [raised |-> << "GromacsToolLoadingError" >>, tools |-> << >>]
        ELSE found

\* v4_names without the replacement of an empty list by V4TOOLS
v4_names_as_found(cfg, env) == candidate_names(cfg, env) \o cfg.extra_tool_names

\* the list of names load_v4_tools registers
v4_names(cfg, env) ==
    LET names == candidate_names(cfg, env) IN
    (IF Len(names) = 0 \/ Len(names) > Len(V4TOOLS) * 4 THEN V4TOOLS ELSE names)
        \o cfg.extra_tool_names

load_v4_tools(cfg, env) ==
    LET names == v4_names(cfg, env)
        add(tools, k) == dict_set(tools, make_valid_identifier(names[k]),
                                  tool_factory(make_valid_identifier(names[k]), names[k],
                                               None, "GromacsCommand"))
        tools == for_range(add, << >>, 1, Len(names))
    IN  IF Len(tools) = 0
        THEN [raised |-> << "GromacsToolLoadingError" >>, tools |-> << >>]
        ELSE [raised |-> None, tools |-> tools]

\* select_loaders with the try/except around every call of load_v5_tools
select_loaders_always_fallback(cfg, env) ==
    IF cfg.MAJOR_RELEASE = "4"
    THEN [loaders |-> << "load_v4_tools" >>, result |-> load_v4_tools(cfg, env)]
    ELSE LET v5 == load_v5_tools(cfg, env) IN
         IF v5.raised # << "GromacsToolLoadingError" >>
         THEN [loaders |-> << "load_v5_tools" >>, result |-> v5]
         ELSE [loaders |-> << "load_v5_tools", "load_v4_tools" >>,
               result |-> load_v4_tools(cfg, env)]

\* the module-level "Load tools" block: which loaders run, and what comes
\* out of it
select_loaders(cfg, env) ==
    IF cfg.MAJOR_RELEASE \in V5_RELEASES
    THEN [loaders |-> << "load_v5_tools" >>, result |-> load_v5_tools(cfg, env)]
    ELSE IF cfg.MAJOR_RELEASE = "4"
    THEN [loaders |-> << "load_v4_tools" >>, result |-> load_v4_tools(cfg, env)]
    ELSE LET v5 == load_v5_tools(cfg, env) IN
         IF v5.raised # << "GromacsToolLoadingError" >>
         THEN [loaders |-> << "load_v5_tools" >>, result |-> v5]
         ELSE [loaders |-> << "load_v5_tools", "load_v4_tools" >>,
               result |-> load_v4_tools(cfg, env)]

-----------------------------------------------------------------------------
(* tools.py: the alias pass and the multi-index patch *)

\* the inner "for c5, c4 in NAMES5TO4": position of the first key that the
\* Gromacs name starts with, 0 when the loop runs to its else branch
first_match(name) ==
    LET hits == { i \in 1..Len(NAMES5TO4) : startswith(name, NAMES5TO4[i][1]) }
    IN  IF hits = {} THEN 0 ELSE Min(hits)

legacy_name(fancy) == << "G", "_" >> \o str_lower(fancy)

\* alias_step without the "if c4 == c5: break": a tool that the table maps
\* to itself falls through to the G_ name
alias_step_no_break(sofar, fancy, cmd) ==
    LET hits == { i \in 1..Len(NAMES5TO4) :
                    /\ startswith(cmd.command_name, NAMES5TO4[i][1])
                    /\ NAMES5TO4[i][1] # NAMES5TO4[i][2] }
    IN
    IF sofar.raised # None THEN sofar
    ELSE IF hits = {}
    THEN [raised |-> None,
          registry |-> dict_set(sofar.registry, legacy_name(fancy),
                                dict_get(sofar.registry, fancy))]
    ELSE LET c5 == NAMES5TO4[Min(hits)][1]
             c4 == NAMES5TO4[Min(hits)][2]
             rest == split_item1(fancy, make_valid_identifier(c5))
         IN  IF rest.IndexError
             THEN [raised |-> << "IndexError" >>, registry |-> sofar.registry]
             ELSE [raised |-> None,
                   registry |-> dict_set(sofar.registry,
                                         make_valid_identifier(c4 \o rest.value),
                                         dict_get(sofar.registry, fancy))]

\* one round of "for fancy, cmd in list(registry.items())"
alias_step(sofar, fancy, cmd) ==
    LET i == first_match(cmd.command_name) IN
    IF sofar.raised # None THEN sofar
    ELSE IF i = 0
    THEN [raised |-> None,
          registry |-> dict_set(sofar.registry, legacy_name(fancy),
                                dict_get(sofar.registry, fancy))]
    ELSE LET c5 == NAMES5TO4[i][1]
             c4 == NAMES5TO4[i][2]
             rest == split_item1(fancy, make_valid_identifier(c5))
         IN  IF c4 = c5 THEN sofar
             ELSE IF rest.IndexError
             THEN [raised |-> << "IndexError" >>, registry |-> sofar.registry]
             ELSE [raised |-> None,
                   registry |-> dict_set(sofar.registry,
                                         make_valid_identifier(c4 \o rest.value),
                                         dict_get(sofar.registry, fancy))]

\* the whole alias loop over a snapshot of the registry
alias_pass(reg) ==
    LET pass(sofar, k) == alias_step(sofar, reg[k].key, reg[k].cls)
    IN  for_range(pass, [raised |-> None, registry |-> reg], 1, Len(reg))

MULTI_INDEX_TOOLS ==
  << << <<"G","_","m","i","n","d","i","s","t">>, <<"M","i","n","d","i","s","t">> >>,
     << <<"G","_","d","i","s","t">>, <<"D","i","s","t","a","n","c","e">> >> >>

\* one round of "for name4, name5 in [...]"
patch_step(reg, name4, name5) ==
    IF ~dict_has(reg, name4) THEN reg
    ELSE LET cmd == dict_get(reg, name4)
             multi4 == tool_factory(name4, cmd.command_name, cmd.driver,
                                    "GromacsCommandMultiIndex")
             reg4 == dict_set(reg, name4, multi4)
         IN  IF dict_has(reg4, name5) THEN dict_set(reg4, name5, multi4) ELSE reg4

patch_multi_index(reg) ==
    LET patch(sofar, k) == patch_step(sofar, MULTI_INDEX_TOOLS[k][1], MULTI_INDEX_TOOLS[k][2])
    IN  for_range(patch, reg, 1, Len(MULTI_INDEX_TOOLS))
-----------------------------------------------------------------------------
(* the configurations and environments the module is imported under *)

gmx == <<"g", "m", "x">>
gmx_d == <<"g", "m", "x", "_", "d">>

\* "gmx help commands" output for a list of tool names
help_text(names) ==
    LET header == [i \in 1..HELP_HEADER_LINES |-> <<"U", "s", "a", "g", "e">>]
        footer == [i \in 1..HELP_FOOTER_LINES |-> <<"F", "o", "r", " ", "h", "e", "l", "p">>]
        line(name) == << " ", " ", " ", " " >> \o name \o << " ", " ", "." >>
    IN  header \o [i \in 1..Len(names) |-> line(names[i])] \o footer

\* tools of a current release (convert-tpr, distance and sasa have other
\* names in Gromacs 4; grompp and make_ndx have the same; mindist is only
\* prefixed)
MODERN_TOOLS == << <<"c", "o", "n", "v", "e", "r", "t", "-", "t", "p", "r">>, <<"d", "i", "s", "t", "a", "n", "c", "e">>, <<"g", "r", "o", "m", "p", "p">>,
                   <<"m", "a", "k", "e", "_", "n", "d", "x">>, <<"m", "i", "n", "d", "i", "s", "t">>, <<"s", "a", "s", "a">> >>

\* tools of Gromacs 5.0, which shipped the new gangle next to the old sgangle
LEGACY_TOOLS == << <<"g", "a", "n", "g", "l", "e">>, <<"m", "d", "r", "u", "n">>, <<"s", "g", "a", "n", "g", "l", "e">> >>

\* a tool line whose description holds a byte outside ASCII
unreadable_line == << " ", " ", " ", " " >> \o <<"m", "d", "r", "u", "n">> \o << " ", " ", "\\xc3" >>

\* what a driver can do when asked for its commands: exit non-zero, print
\* a list, print text that holds no tool line, or print a list that is not
\* ASCII throughout
HelpResults ==
    { [raises |-> << "CalledProcessError" >>, out |-> << >>],
      [raises |-> None, out |-> help_text(MODERN_TOOLS)],
      [raises |-> None, out |-> help_text(LEGACY_TOOLS)],
      [raises |-> None, out |-> << <<"g", "m", "x", ":", " ", "c", "o", "m", "m", "a", "n", "d", " ", "n", "o", "t", " ", "u", "n", "d", "e", "r", "s", "t", "o", "o", "d">>, <<" ", " ", " ", " ">>, <<" ", " ", " ", " ", "g", "r", "o", "m", "p", "p">> >>],
      [raises |-> None,
       out |-> SubSeq(help_text(MODERN_TOOLS), 1, HELP_HEADER_LINES + 2)
                 \o << unreadable_line, <<"F", "o", "r", " ", "h", "e", "l", "p">> >>] }

Releases == { "5", "2023", "4", "None" }

ToolNameConfigs ==
    { << >>,
      << gmx >>,
      << gmx, gmx_d >>,
      << <<"g", "r", "o", "m", "p", "p">>, <<"m", "d", "r", "u", "n">> >>,
      << gmx, gmx_d, <<"g", "m", "x", "_", "m", "p", "i">>, <<"g", "m", "x", "_", "m", "p", "i", "_", "d">>, <<"g", "m", "x", "_", "g", "p", "u">> >> }

ExtraToolConfigs == { << >>, << <<"g", "_", "c", "o", "u", "n", "t">> >> }

\* $GMXBIN: unset, or a directory
GmxbinDirs ==
    { None,
      << [name |-> gmx, x_ok |-> TRUE, isdir |-> FALSE],
         [name |-> <<"G", "M", "X", "R", "C">>, x_ok |-> TRUE, isdir |-> FALSE],
         [name |-> <<"s", "h", "a", "r", "e">>, x_ok |-> TRUE, isdir |-> TRUE],
         [name |-> <<"R", "E", "A", "D", "M", "E">>, x_ok |-> FALSE, isdir |-> FALSE],
         [name |-> gmx_d, x_ok |-> TRUE, isdir |-> FALSE] >> }

Configs ==
    [MAJOR_RELEASE : Releases, tool_names : ToolNameConfigs,
     extra_tool_names : ExtraToolConfigs, append_suffix : BOOLEAN]

Environs == [GMXBIN : GmxbinDirs, help : [{gmx, gmx_d} -> HelpResults]]

-----------------------------------------------------------------------------
(* import of gromacs.tools *)

IdleK8s ==
    /\ runner = None
    /\ cluster = {}

IdleMulti == multi = None
IdleRelease == release = None
IdleIdent == ident = None

Init ==
    /\ config \in Configs
    /\ environ \in Environs
    /\ registry = << >>
    /\ loaders = << >>
    /\ pc = "load"
    /\ error = None
    /\ IdleK8s /\ IdleMulti /\ IdleRelease /\ IdleIdent

\* lines 533-566
LoadTools ==
    /\ pc = "load"
    /\ LET run == select_loaders(config, environ) IN
       /\ loaders' = run.loaders
       /\ registry' = run.result.tools
       /\ error' = run.result.raised
       /\ pc' = IF run.result.raised = None THEN "alias" ELSE "failed"
    /\ UNCHANGED << config, environ, k8svars, multi, release, ident >>

\* lines 571-588
AliasPass ==
    /\ pc = "alias"
    /\ LET run == alias_pass(registry) IN
       /\ registry' = run.registry
       /\ error' = run.raised
       /\ pc' = IF run.raised = None THEN "patch" ELSE "failed"
    /\ UNCHANGED << config, environ, loaders, k8svars, multi, release, ident >>

\* lines 591-599
PatchMultiIndex ==
    /\ pc = "patch"
    /\ registry' = patch_multi_index(registry)
    /\ pc' = "done"
    /\ UNCHANGED << config, environ, loaders, error, k8svars, multi, release, ident >>

Next == LoadTools \/ AliasPass \/ PatchMultiIndex

Spec == Init /\ [][Next]_vars

\* the alias loop run once more over the registry it has already aliased
RerunAliasPass ==
    /\ pc = "patch"
    /\ LET run == alias_pass(registry) IN
       /\ registry' = run.registry
       /\ error' = run.raised
       /\ pc' = IF run.raised = None THEN "realiased" ELSE "failed"
    /\ UNCHANGED << config, environ, loaders, k8svars, multi, release, ident >>

NextRealias == LoadTools \/ AliasPass \/ RerunAliasPass

SpecRealias == Init /\ [][NextRealias]_vars
-----------------------------------------------------------------------------
(* Properties of the registry *)

entries(reg) == { reg[i] : i \in 1..Len(reg) }

\* the (canonical name, driver) pair a registry name routes to
target(cls) == << cls.command_name, cls.driver >>

\* the tools that discovery registered, before any alias was added
discovered == select_loaders(config, environ).result.tools

\* the kind of alias-table entry a Gromacs name falls under
self_mapped(name) ==
    \E i \in 1..Len(NAMES5TO4) :
        /\ startswith(name, NAMES5TO4[i][1])
        /\ \A j \in 1..(i - 1) : ~startswith(name, NAMES5TO4[j][1])
        /\ NAMES5TO4[i][1] = NAMES5TO4[i][2]

renamed(name) ==
    \E i \in 1..Len(NAMES5TO4) :
        /\ startswith(name, NAMES5TO4[i][1])
        /\ \A j \in 1..(i - 1) : ~startswith(name, NAMES5TO4[j][1])
        /\ NAMES5TO4[i][1] # NAMES5TO4[i][2]

unlisted(name) == \A i \in 1..Len(NAMES5TO4) : ~startswith(name, NAMES5TO4[i][1])

\* the names under which a renamed tool is to be reachable in Gromacs 4
\* style: the old name, capitalised, with what follows the new name in the
\* addressable name (the driver's suffix) kept
old_names(e) ==
    { make_valid_identifier(NAMES5TO4[i][2]
          \o SubSeq(e.key, Len(NAMES5TO4[i][1]) + 1, Len(e.key))) :
        i \in { j \in 1..Len(NAMES5TO4) :
                  /\ startswith(e.cls.command_name, NAMES5TO4[j][1])
                  /\ startswith(e.key, make_valid_identifier(NAMES5TO4[j][1]))
                  /\ NAMES5TO4[j][1] # NAMES5TO4[j][2] } }

\* the names the alias pass is to add for one descriptor
alias_names(e) ==
    IF unlisted(e.cls.command_name) THEN { legacy_name(e.key) }
    ELSE IF renamed(e.cls.command_name) THEN old_names(e)
    ELSE {}

AliasPassDone == pc = "alias" /\ pc' = "patch"

\* C1: once the registry is built, a discovered tool whose Gromacs name is a
\* renamed alias-table key c5 is reachable under its own name and under the
\* old name c4, and both names route to the same (Gromacs name, driver)
\* pair; every other discovered tool is reachable under its legacy name,
\* which routes to the same pair as the tool.
C1_AliasRoutesToSameTool ==
    pc = "done" =>
        \A e \in entries(discovered) :
            /\ dict_has(registry, e.key)
            /\ \A a \in alias_names(e) :
                  /\ dict_has(registry, a)
                  /\ target(dict_get(registry, a)) = target(e.cls)
                  /\ target(dict_get(registry, a)) = target(dict_get(registry, e.key))

\* C3 as stated: the alias pass gives every descriptor that was in the
\* registry a new name, tools that the table maps to themselves included.
C3_EveryDescriptorGetsNewBinding ==
    [][AliasPassDone =>
          \A e \in entries(registry) :
              \E k \in dict_keys(registry') \ dict_keys(registry) :
                  dict_get(registry', k) = e.cls]_vars

\* C3 amended: the names after the pass are the names before it plus, per
\* descriptor, the old name of a renamed tool or the G_ name of a tool the
\* table does not list; a tool the table maps to itself adds none, so at
\* most one name is added per descriptor, and what was registered stays.
C3_AliasPassBindings ==
    [][AliasPassDone =>
          /\ dict_keys(registry') =
                dict_keys(registry) \cup UNION { alias_names(e) : e \in entries(registry) }
          /\ \A e \in entries(registry) :
                /\ Cardinality(alias_names(e)) <= 1
                /\ self_mapped(e.cls.command_name) => alias_names(e) = {}
                /\ dict_get(registry', e.key) = e.cls
          /\ \A k \in dict_keys(registry') \ dict_keys(registry) :
                \E e \in entries(registry) :
                    k \in alias_names(e) /\ dict_get(registry', k) = e.cls
          /\ Len(registry') - Len(registry) <=
                Cardinality({ i \in 1..Len(registry) :
                                ~self_mapped(registry[i].cls.command_name) })]_vars

\* C3 witness: the pass has run over a registry holding a self-mapped tool,
\* a renamed tool and an unlisted tool
C3_Witness ==
    /\ pc = "patch"
    /\ \E e \in entries(discovered) : self_mapped(e.cls.command_name)
    /\ \E e \in entries(discovered) : renamed(e.cls.command_name)
    /\ \E e \in entries(discovered) : unlisted(e.cls.command_name)

RerunDone == pc = "patch" /\ pc' \in { "realiased", "failed" }

\* C2 as stated: a second alias pass completes and leaves the set of names
\* as the first pass left it.
C2_RerunIsIdempotent ==
    [][RerunDone =>
          /\ pc' = "realiased"
          /\ dict_keys(registry') = dict_keys(registry)]_vars

\* C2 amended: a second alias pass removes no name; it completes without
\* adding one exactly when every registered tool is mapped to itself by the
\* table.  It fails with IndexError exactly when the registry holds an old
\* name that the first pass added for a renamed tool (that name does not
\* hold the new name to split at); when it completes it adds the G_ name of
\* every name whose tool is unlisted, the G_ names of the first pass
\* included.
C2_RerunOnlyGrows ==
    [][RerunDone =>
          /\ dict_keys(registry) \subseteq dict_keys(registry')
          /\ (pc' = "realiased" /\ dict_keys(registry') = dict_keys(registry))
                <=> \A e \in entries(registry) : self_mapped(e.cls.command_name)
          /\ pc' = "failed" <=>
                \E e \in entries(registry) :
                    renamed(e.cls.command_name) /\ e.key # e.cls.clsname
          /\ pc' = "failed" => error' = << "IndexError" >>
          /\ pc' = "realiased" =>
                \A e \in entries(registry) :
                    unlisted(e.cls.command_name) => dict_has(registry', legacy_name(e.key))]_vars

\* C2 witness: the second pass has completed and added the alias of an alias
C2_Witness ==
    /\ pc = "realiased"
    /\ \E e \in entries(registry) :
          /\ e.cls.driver # None
          /\ e.key = legacy_name(legacy_name(e.cls.clsname))

\* C8 as stated: whenever load_v5_tools is called and raises
\* GromacsToolLoadingError, load_v4_tools is called next, and the import
\* fails only if that fails too.
C8_FallbackWheneverV5Fails ==
    (pc # "load" /\ loaders[1] = "load_v5_tools"
        /\ load_v5_tools(config, environ).raised = << "GromacsToolLoadingError" >>)
    => /\ loaders = << "load_v5_tools", "load_v4_tools" >>
       /\ error # None => load_v4_tools(config, environ).raised # None

\* C8 amended: the fallback to load_v4_tools happens when no release is
\* configured; under a configured release 5/2016..2023 load_v5_tools is the
\* only loader called and its GromacsToolLoadingError ends the import.
C8_FallbackOnlyWhenUnconfigured ==
    (pc # "load" /\ loaders[1] = "load_v5_tools"
        /\ load_v5_tools(config, environ).raised = << "GromacsToolLoadingError" >>)
    => IF config.MAJOR_RELEASE \in V5_RELEASES
       THEN /\ loaders = << "load_v5_tools" >>
            /\ pc = "failed"
            /\ error = << "GromacsToolLoadingError" >>
            /\ registry = << >>
       ELSE /\ loaders = << "load_v5_tools", "load_v4_tools" >>
            /\ error # None => load_v4_tools(config, environ).raised # None
            /\ error = None => discovered = load_v4_tools(config, environ).tools

\* C8 witness: with no release configured, no driver yielded a tool and the
\* Gromacs 4 tools were loaded instead
C8_Witness ==
    /\ pc = "done"
    /\ config.MAJOR_RELEASE \notin V5_RELEASES
    /\ loaders = << "load_v5_tools", "load_v4_tools" >>
    /\ load_v5_tools(config, environ).raised = << "GromacsToolLoadingError" >>
    /\ \E e \in entries(registry) : e.cls.driver = None

\* what one driver contributes when it is probed alone
alone(driver) == probe_drivers(<< driver >>, environ, config.append_suffix)

\* a driver whose self-report fails: the call raises (non-zero exit, no
\* such executable), or what it prints cannot be decoded or names no tool
failing(driver) ==
    \/ check_output(environ, driver).raises # None
    \/ alone(driver).raised # None
    \/ alone(driver).tools = << >>

\* the drivers of a list that report tools
reporting(drivers) == SelectSeq(drivers, LAMBDA d : ~failing(d))

V5Probed == pc # "load" /\ loaders # << >> /\ loaders[1] = "load_v5_tools"

\* C11: when load_v5_tools has run, whatever the drivers in its list do,
\* it ends normally or with GromacsToolLoadingError; it raises exactly when
\* no driver of the list reports a tool; and otherwise the tools it returns
\* are the tools that the same list without the failing drivers yields.
C11_ProbeFailuresAreIsolated ==
    V5Probed =>
        LET drivers == v5_drivers(config, environ)
            v5 == load_v5_tools(config, environ)
        IN  /\ v5.raised \in { None, << "GromacsToolLoadingError" >> }
            /\ v5.raised = << "GromacsToolLoadingError" >> <=> reporting(drivers) = << >>
            /\ v5.raised = None =>
                  v5.tools = probe_drivers(reporting(drivers), environ,
                                           config.append_suffix).tools

\* the Gromacs names of the two tools that the patch loop is written for:
\* mindist and distance, and what they are called in Gromacs 4
multi_input_names == { <<"m", "i", "n", "d", "i", "s", "t">>, <<"d", "i", "s", "t", "a", "n", "c", "e">>, <<"g", "_", "m", "i", "n", "d", "i", "s", "t">>, <<"g", "_", "d", "i", "s", "t">> }

wrapped(cls) == cls.base = "GromacsCommandMultiIndex"

\* C12: once the registry is built, every discovered mindist or distance
\* tool, whatever driver reported it and under whatever suffix, is bound
\* under its primary name to a descriptor wrapped by
\* GromacsCommandMultiIndex that has the tool's Gromacs name and driver,
\* and the legacy alias of a tool found through a driver is bound to that
\* same descriptor.
C12_MultiInputToolsAreWrapped ==
    pc = "done" =>
        \A e \in entries(discovered) :
            e.cls.command_name \in multi_input_names =>
                /\ dict_has(registry, e.key)
                /\ wrapped(dict_get(registry, e.key))
                /\ target(dict_get(registry, e.key)) = target(e.cls)
                /\ e.cls.driver # None =>
                      \A n \in alias_names(e) :
                          /\ dict_has(registry, n)
                          /\ dict_get(registry, n) = dict_get(registry, e.key)

Unconfigured == config.MAJOR_RELEASE \notin V5_RELEASES \cup { "4" }

\* C13: under every configuration and environment load_v4_tools returns a
\* registry that is not empty and does not raise; where no tool name is
\* configured or found in $GMXBIN, the names it registers start with the
\* V4TOOLS list.  So an import that called load_v4_tools has not failed,
\* and with no release configured the import never ends with
\* GromacsToolLoadingError.
C13_V4DiscoveryNeverFails ==
    /\ load_v4_tools(config, environ).raised = None
    /\ Len(load_v4_tools(config, environ).tools) > 0
    /\ Len(v4_names(config, environ)) > 0
    /\ candidate_names(config, environ) = << >> =>
          SubSeq(v4_names(config, environ), 1, Len(V4TOOLS)) = V4TOOLS
    /\ (pc # "load" /\ loaders # << >> /\ loaders[Len(loaders)] = "load_v4_tools") =>
          /\ error # << "GromacsToolLoadingError" >>
          /\ pc # "failed"
          /\ registry # << >>
    /\ Unconfigured => error # << "GromacsToolLoadingError" >>

\* C13 witness: no release and no tool name configured, no $GMXBIN, no
\* driver that answers: the import is through and holds the V4TOOLS
C13_Witness ==
    /\ pc = "done"
    /\ Unconfigured
    /\ config.tool_names = << >> /\ config.extra_tool_names = << >>
    /\ environ.GMXBIN = None
    /\ \A d \in DOMAIN environ.help : environ.help[d].raises # None
    /\ loaders = << "load_v5_tools", "load_v4_tools" >>
    /\ \A k \in 1..Len(V4TOOLS) : dict_has(registry, make_valid_identifier(V4TOOLS[k]))
-----------------------------------------------------------------------------
(* k8s.py: MDrunnerK8s.  Image, volume claim, directory, uuid and the      *)
(* words of a command line are opaque strings, written as one-element      *)
(* sequences; "" is the empty sequence.                                    *)

DEFAULT_IMAGE == << "cerit.io/ljocha/gromacs:2023-2-plumed-2-9-afed-pytorch-model-cv" >>

\* values uuid.uuid4() can return
UUIDS == { << "uuid-1" >>, << "uuid-2" >> }

\* what the heuristics of __init__ read from the host: the claim that
\* "kubectl get pvc" names for the volume under the current directory, and
\* the current directory relative to the mount point
HOST == [pvc |-> << "claim-of-cwd" >>, relpath |-> << "sim/run1" >>]

\* MDrunnerK8s.__init__(pvc, workdir, image), uuid being what uuid4() returns
new_runner(pvc, workdir, image, uuid) ==
    LET found_pvc == IF pvc = None THEN HOST.pvc ELSE pvc
        found_dir == IF pvc = None /\ workdir = None THEN HOST.relpath ELSE workdir
    IN  [image   |-> image,
         workdir |-> IF found_dir = None THEN << >> ELSE found_dir,
         pvc     |-> found_pvc,
         jobname |-> << "gmx-" >> \o uuid]

\* a job manifest with a name that depends on the call, not only on the
\* runner
job_manifest_per_call(self, cores, gpus, gputype, mem) ==
    [name       |-> self.jobname \o << "-" >> \o cores,
     label      |-> self.jobname \o << "-" >> \o cores,
     container  |-> self.jobname \o << "-" >> \o cores,
     image      |-> self.image,
     workingDir |-> << "/mnt/" >> \o self.workdir,
     threads    |-> cores,
     cpu        |-> cores,
     memory     |-> mem \o << "Gi" >>,
     gpu        |-> << "nvidia.com/" >> \o gputype,
     gpus       |-> gpus,
     claimName  |-> self.pvc]

\* the manifest that prehook writes (the fields the f-string fills in)
job_manifest(self, cores, gpus, gputype, mem) ==
    [name       |-> self.jobname,
     label      |-> self.jobname,
     container  |-> self.jobname,
     image      |-> self.image,
     workingDir |-> << "/mnt/" >> \o self.workdir,
     threads    |-> cores,
     cpu        |-> cores,
     memory     |-> mem \o << "Gi" >>,
     gpu        |-> << "nvidia.com/" >> \o gputype,
     gpus       |-> gpus,
     claimName  |-> self.pvc]

\* os.system("kubectl apply -f <manifest>"): when the control plane accepts
\* it, a job of that name exists afterwards (a new one unless there was one)
kubectl_apply(jobs, manifest, accepted) ==
    IF accepted
    THEN [rc |-> 0,
          jobs |-> IF \E j \in jobs : j.name = manifest.name THEN jobs
                   ELSE jobs \cup { [name |-> manifest.name, label |-> manifest.label,
                                     ready |-> FALSE] }]
    ELSE [rc |-> 1, jobs |-> jobs]

\* os.system("kubectl wait --for=condition=ready pod -l job=<label>"):
\* succeeds when a pod with the label exists and gets ready in time
kubectl_wait(jobs, label, in_time) ==
    IF in_time /\ \E j \in jobs : j.label = label
    THEN [rc |-> 0,
          jobs |-> { IF j.label = label THEN [j EXCEPT !.ready = TRUE] ELSE j : j \in jobs }]
    ELSE [rc |-> 1, jobs |-> jobs]

\* os.system("kubectl delete job/<name>")
kubectl_delete(jobs, name, accepted) ==
    IF accepted /\ \E j \in jobs : j.name = name
    THEN [rc |-> 0, jobs |-> { j \in jobs : j.name # name }]
    ELSE [rc |-> 1, jobs |-> jobs]

\* prehook(cores, gpus, gputype, mem): both kubectl calls are made, their
\* exit codes are dropped, and the method returns None
prehook(self, jobs, cores, gpus, gputype, mem, accepted, in_time) ==
    LET manifest == job_manifest(self, cores, gpus, gputype, mem)
        applied  == kubectl_apply(jobs, manifest, accepted)
        waited   == kubectl_wait(applied.jobs, self.jobname, in_time)
    IN  [raised |-> None, jobs |-> waited.jobs, name |-> manifest.name,
         apply_rc |-> applied.rc, wait_rc |-> waited.rc]

\* posthook(): the exit code is dropped
posthook(self, jobs, accepted) ==
    LET deleted == kubectl_delete(jobs, self.jobname, accepted)
    IN  [raised |-> None, jobs |-> deleted.jobs, name |-> self.jobname, rc |-> deleted.rc]

\* commandline without the kubectl prefix
commandline_local(self, base) == base

\* commandline(**kwargs), base being what MDrunner.commandline(**kwargs) returns
commandline(self, base) ==
    << << "kubectl" >>, << "exec" >>, << "-ti" >>, << "job/" >> \o self.jobname, << "--" >> >>
        \o base

\* what MDrunner.commandline returns for the keyword arguments of a call
BaseCommandlines ==
    { << << "gmx mdrun" >>, << "-deffnm" >>, << "md" >> >>,
      << << "mpiexec" >>, << "-n" >>, << "4" >>, << "gmx mdrun" >>, << "-v" >> >> }

PvcArgs == { None, << "claim-a" >> }
WorkdirArgs == { None, << "work" >> }
CoresArgs == { << "1" >>, << "8" >> }

\* prehook calls that a runner's history keeps
MaxPrehooks == 2

IdleTools ==
    /\ config = None
    /\ environ = None
    /\ registry = << >>
    /\ loaders = << >>
    /\ pc = "idle"
    /\ error = None

\* no runner has been constructed yet
Unconstructed == [last |-> "unconstructed"]

InitK8s ==
    /\ runner = Unconstructed
    /\ cluster = {}
    /\ IdleTools /\ IdleMulti /\ IdleRelease /\ IdleIdent

\* runner = MDrunnerK8s(pvc=..., workdir=...)
Construct ==
    /\ runner.last = "unconstructed"
    /\ \E pvc \in PvcArgs, workdir \in WorkdirArgs, uuid \in UUIDS :
          runner' = [self      |-> new_runner(pvc, workdir, DEFAULT_IMAGE, uuid),
                     uuid      |-> uuid,       \* what uuid4() returned
                     prehooks  |-> << >>,      \* per prehook call: the job name
                                               \* submitted, the two exit codes
                                               \* and the exception raised
                     deleted   |-> {},         \* job names posthook deleted
                     since     |-> 0,          \* prehook calls since the last posthook
                     last      |-> "__init__", \* last of __init__, prehook, posthook
                     base      |-> << >>,      \* last command line of the base class
                     command   |-> << >>,      \* last command line of this class
                     after     |-> "never"]    \* value of last when it was built
    /\ UNCHANGED << cluster, toolsvars, multi, release, ident >>

\* runner.prehook(cores=...)
Prehook ==
    /\ runner.last # "unconstructed"
    /\ Len(runner.prehooks) < MaxPrehooks
    /\ \E cores \in CoresArgs, accepted \in BOOLEAN, in_time \in BOOLEAN :
          LET run == prehook(runner.self, cluster, cores, << "0" >>, << "mig-1g.10gb" >>,
                             << "4" >>, accepted, in_time)
          IN  /\ cluster' = run.jobs
              /\ runner' = [runner EXCEPT
                               !.prehooks = Append(@, [name |-> run.name,
                                                       raised |-> run.raised,
                                                       apply_rc |-> run.apply_rc,
                                                       wait_rc |-> run.wait_rc]),
                               !.since = @ + 1,
                               !.last = "prehook"]
    /\ UNCHANGED << toolsvars, multi, release, ident >>

\* runner.posthook()
Posthook ==
    /\ runner.last # "unconstructed"
    /\ \E accepted \in BOOLEAN :
          LET run == posthook(runner.self, cluster, accepted)
          IN  /\ cluster' = run.jobs
              /\ runner' = [runner EXCEPT
                               !.deleted = @ \cup { run.name },
                               !.since = 0,
                               !.last = "posthook"]
    /\ UNCHANGED << toolsvars, multi, release, ident >>

\* runner.commandline(**kwargs)
Commandline ==
    /\ runner.last # "unconstructed"
    /\ \E base \in BaseCommandlines :
          runner' = [runner EXCEPT
                        !.base = base,
                        !.command = commandline(runner.self, base),
                        !.after = runner.last]
    /\ UNCHANGED << cluster, toolsvars, multi, release, ident >>

NextK8s == Construct \/ Prehook \/ Posthook \/ Commandline

SpecK8s == InitK8s /\ [][NextK8s]_vars

-----------------------------------------------------------------------------
(* Properties of the runner *)

Constructed == runner.last # "unconstructed"

\* the last prehook call, when there was one
LastPrehook == runner.prehooks[Len(runner.prehooks)]

\* C4: the job named by the runner is the one made from the uuid of its
\* construction and never another; every command line is "kubectl exec -ti
\* job/<that name> --" followed by the base class's command line, and
\* prehook submitted and posthook deleted only that name.
C4_ExecIntoJobOfConstruction ==
    Constructed =>
        /\ runner.self.jobname = << "gmx-" >> \o runner.uuid
        /\ \A i \in 1..Len(runner.prehooks) :
              runner.prehooks[i].name = << "gmx-" >> \o runner.uuid
        /\ \A name \in runner.deleted : name = << "gmx-" >> \o runner.uuid
        /\ runner.after # "never" =>
              /\ Len(runner.command) = 5 + Len(runner.base)
              /\ SubSeq(runner.command, 1, 5) =
                    << << "kubectl" >>, << "exec" >>, << "-ti" >>,
                       << "job/", "gmx-" >> \o runner.uuid, << "--" >> >>
              /\ SubSeq(runner.command, 6, Len(runner.command)) = runner.base

\* C4 witness: after a posthook, prehook succeeded again and a command line
\* was built
C4_Witness ==
    /\ Constructed
    /\ runner.after = "prehook"
    /\ runner.last = "prehook"
    /\ LastPrehook.apply_rc = 0
    /\ LastPrehook.wait_rc = 0
    /\ runner.deleted # {}

\* C5: when prehook returns normally, the job was applied and its pod was
\* reported ready.
C5_NormalReturnMeansReady ==
    Constructed =>
        \A i \in 1..Len(runner.prehooks) :
            runner.prehooks[i].raised = None =>
                /\ runner.prehooks[i].apply_rc = 0
                /\ runner.prehooks[i].wait_rc = 0

\* C6 as stated: a second prehook without a posthook in between submits a
\* job under another name than the first.
C6_SecondPrehookUsesFreshName ==
    (Constructed /\ runner.since >= 2)
    => LastPrehook.name # runner.prehooks[Len(runner.prehooks) - 1].name

\* C6 amended: every prehook of a runner submits the job name generated at
\* construction, so a second prehook creates no second job: the control plane
\* holds at most one job, the one posthook names, and no job is left over
\* that posthook would not delete.
C6_ReprovisioningReusesJob ==
    Constructed =>
        /\ \A i \in 1..Len(runner.prehooks) : runner.prehooks[i].name = runner.self.jobname
        /\ \A j \in cluster : j.name = runner.self.jobname
        /\ Cardinality(cluster) <= 1
        /\ \A name \in runner.deleted : name = runner.self.jobname

\* C6 witness: two prehooks without a posthook in between, both accepted
C6_Witness ==
    /\ Constructed
    /\ runner.since >= 2
    /\ \A i \in 1..Len(runner.prehooks) : runner.prehooks[i].apply_rc = 0
    /\ cluster # {}
-----------------------------------------------------------------------------
(* tools.py: GromacsCommandMultiIndex and merge_ndx.  A keyword argument   *)
(* is [type, value]: type "absent" when the keyword is not given,          *)
(* "NoneType", "str" (value a string) or "list" (value a list of strings). *)

absent == [type |-> "absent", value |-> << >>]
py_none == [type |-> "NoneType", value |-> << >>]
py_str(s) == [type |-> "str", value |-> s]
py_list(l) == [type |-> "list", value |-> l]

\* the whole module-level code for one configuration and environment
build_registry(cfg, env) ==
    patch_multi_index(alias_pass(select_loaders(cfg, env).result.tools).registry)

\* the path tempfile.mkstemp(suffix=".ndx", prefix="multi_") creates when
\* made files exist already
mkstemp(made) == <<"m", "u", "l", "t", "i", "_">> \o << digits[made + 1] >> \o <<".", "n", "d", "x">>

\* merge_ndx(*args); made is the number of temporary files made so far
merge_ndx(args, reg, made) ==
    LET is_ndx(k) == endswith(args[k], <<".", "n", "d", "x">>)
        ndxs == for_range(LAMBDA l, k : IF is_ndx(k) THEN Append(l, args[k]) ELSE l,
                          << >>, 1, Len(args))
        structs == for_range(LAMBDA l, k : IF is_ndx(k) THEN l ELSE Append(l, args[k]),
                             << >>, 1, Len(args))
        multi_ndx == mkstemp(made)
    IN  IF Len(structs) > 1
        THEN [raised |-> << "ValueError" >>, made |-> made, calls |-> << >>, path |-> << >>]
        ELSE IF ~dict_has(reg, <<"M", "a", "k", "e", "_", "n", "d", "x">>)
        THEN [raised |-> << "KeyError" >>, made |-> made + 1, calls |-> << >>, path |-> << >>]
        ELSE [raised |-> None, made |-> made + 1, path |-> multi_ndx,
              calls |-> << [tool |-> dict_get(reg, <<"M", "a", "k", "e", "_", "n", "d", "x">>),
                            f |-> IF Len(structs) = 1 /\ structs[1] # << >>
                                  THEN py_str(structs[1]) ELSE absent,
                            n |-> py_list(ndxs),
                            o |-> py_str(multi_ndx),
                            input |-> << << "q" >> >>] >>]

\* _fake_multi_ndx(**kwargs)
fake_multi_ndx(kwargs, reg, made) ==
    IF kwargs.n.type = "list" /\ Len(kwargs.n.value) > 1 /\ kwargs.s.type # "absent"
    THEN IF kwargs.s.type = "NoneType"
         \* None is appended to the list and merge_ndx calls None.endswith
         THEN [raised |-> << "AttributeError" >>, made |-> made, calls |-> << >>,
               kwargs |-> kwargs]
         ELSE LET merged == merge_ndx(Append(kwargs.n.value, kwargs.s.value), reg, made)
              IN  [raised |-> merged.raised, made |-> merged.made, calls |-> merged.calls,
                   kwargs |-> IF merged.raised = None
                              THEN [kwargs EXCEPT !.n = py_str(merged.path)]
                              ELSE kwargs]
    ELSE [raised |-> None, made |-> made, calls |-> << >>, kwargs |-> kwargs]

a_ndx == <<"a", ".", "n", "d", "x">>
b_ndx == <<"b", ".", "n", "d", "x">>

NArgs == { absent, py_none, py_str(a_ndx), py_list(<< a_ndx >>),
           py_list(<< a_ndx, b_ndx >>), py_list(<< a_ndx, <<"c", "o", "n", "f", ".", "g", "r", "o">> >>) }

SArgs == { absent, py_none, py_str(<<"m", "d", ".", "t", "p", "r">>) }

\* calls of run() on one command instance
MaxRuns == 2

\* registries of three installations: a current release, Gromacs 5.0
\* without make_ndx and grompp, and Gromacs 4
BuiltRegistries ==
    { build_registry([MAJOR_RELEASE |-> major, tool_names |-> << >>,
                      extra_tool_names |-> << >>, append_suffix |-> TRUE],
                     [GMXBIN |-> None, help |-> [d \in {gmx, gmx_d} |-> result]]) :
        major \in { "None" },
        result \in { [raises |-> None, out |-> help_text(MODERN_TOOLS)],
                     [raises |-> None, out |-> help_text(LEGACY_TOOLS)],
                     [raises |-> << "CalledProcessError" >>, out |-> << >>] } }

InitMulti ==
    /\ registry \in BuiltRegistries
    /\ config = None /\ environ = None /\ loaders = << >> /\ error = None
    /\ pc = "done"
    /\ multi = [phase |-> "class", call |-> "none", given |-> [n |-> absent, s |-> absent],
                passed |-> [n |-> absent, s |-> absent], calls |-> << >>,
                raised |-> None, made |-> 0, runs |-> 0]
    /\ runner = None /\ cluster = {} /\ IdleRelease /\ IdleIdent

\* cmd = GromacsCommandMultiIndex(n=..., s=...)
MultiInit ==
    /\ multi.phase = "class"
    /\ \E n \in NArgs, s \in SArgs :
          LET run == fake_multi_ndx([n |-> n, s |-> s], registry, multi.made) IN
          multi' = [multi EXCEPT
                       !.phase = IF run.raised = None THEN "instance" ELSE "raised",
                       !.call = "__init__",
                       !.given = [n |-> n, s |-> s],
                       !.passed = run.kwargs,
                       !.calls = run.calls,
                       !.raised = run.raised,
                       !.made = run.made]
    /\ UNCHANGED << toolsvars, k8svars, release, ident >>

\* cmd.run(n=..., s=...)
MultiRun ==
    /\ multi.phase = "instance"
    /\ multi.runs < MaxRuns
    /\ \E n \in NArgs, s \in SArgs :
          LET run == fake_multi_ndx([n |-> n, s |-> s], registry, multi.made) IN
          multi' = [multi EXCEPT
                       !.call = "run",
                       !.given = [n |-> n, s |-> s],
                       !.passed = run.kwargs,  \* what GromacsCommand.run receives
                       !.calls = run.calls,
                       !.raised = run.raised,
                       !.made = run.made,
                       !.runs = @ + 1]
    /\ UNCHANGED << toolsvars, k8svars, release, ident >>

NextMulti == MultiInit \/ MultiRun

SpecMulti == InitMulti /\ [][NextMulti]_vars

\* C7: a run with two or more index files and no structure file makes one
\* make_ndx call over these files, and the wrapped tool gets the path that
\* call wrote as its only index argument.
C7_MergeWithoutStructure ==
    (/\ multi.call = "run"
     /\ multi.given.n.type = "list"
     /\ Len(multi.given.n.value) > 1
     /\ \A k \in 1..Len(multi.given.n.value) : endswith(multi.given.n.value[k], <<".", "n", "d", "x">>)
     /\ multi.given.s.type = "absent"
     /\ dict_has(registry, <<"M", "a", "k", "e", "_", "n", "d", "x">>))
    => /\ multi.raised = None
       /\ Len(multi.calls) = 1
       /\ multi.calls[1].n = multi.given.n
       /\ multi.calls[1].f = absent
       /\ multi.passed.n = multi.calls[1].o
-----------------------------------------------------------------------------
(* tools.py: Release *)

whitespace == { " ", "\t" }

\* str.lstrip() and str.strip()
lstrip(s) ==
    LET inked == { i \in 1..Len(s) : s[i] \notin whitespace }
    IN  IF inked = {} THEN << >> ELSE SubSeq(s, Min(inked), Len(s))

strip(s) ==
    LET inked == { i \in 1..Len(s) : s[i] \notin whitespace }
    IN  IF inked = {} THEN << >>
        ELSE SubSeq(s, Min(inked), CHOOSE i \in inked : \A j \in inked : j <= i)

\* Release.gromacs_version.match(line) for a line without line breaks:
\* "^G[rR][oO][mM][aA][cC][sS] version:\s*(VERSION)?\s*(?P<version>.+)$"
gromacs_version_match(line) ==
    LET head == <<"G", "r", "o", "m", "a", "c", "s", " ", "v", "e", "r", "s", "i", "o", "n", ":">>
        tail == SubSeq(line, Len(head) + 1, Len(line))
        \* \s* is greedy and ".+" takes whatever is left, blanks included
        value == lstrip(tail)
        after == lstrip(SubSeq(value, Len(<<"V", "E", "R", "S", "I", "O", "N">>) + 1, Len(value)))
    IN  IF /\ Len(line) >= Len(head)
           /\ line[1] = "G"
           /\ \A k \in 2..7 : lower(line[k]) = head[k]
           /\ \A k \in 8..Len(head) : line[k] = head[k]
           /\ tail # << >>
        THEN IF value = << >>
             \* only blanks follow the colon: ".+" matches them
             THEN [matched |-> TRUE, version |-> tail]
             ELSE IF startswith(value, <<"V", "E", "R", "S", "I", "O", "N">>) /\ after # << >>
             THEN [matched |-> TRUE, version |-> after]
             ELSE [matched |-> TRUE, version |-> value]
        ELSE [matched |-> FALSE, version |-> << >>]

\* Release.__init__: grompp is what registry["Grompp"](version=True) prints
\* on stdout and stderr
release_init(reg, grompp) ==
    LET output_lines == IF dict_has(reg, <<"G", "r", "o", "m", "p", "p">>) THEN grompp.out \o grompp.err
                        ELSE << >>     \* KeyError
        matching == { k \in 1..Len(output_lines) :
                        gromacs_version_match(strip(output_lines[k])).matched }
    IN  IF matching = {} THEN None
        ELSE gromacs_version_match(strip(output_lines[Min(matching)])).version

py_bool(b) == [type |-> "bool", value |-> IF b THEN << "True" >> ELSE << "False" >>]
py_tuple(l) == [type |-> "tuple", value |-> l]

\* Release.__call__()
release_call(self) ==
    [raised |-> None, warned |-> self = None,
     result |-> IF self = None THEN py_none ELSE py_str(self)]

\* Release.__str__()
release_str(self) ==
    [raised |-> None, warned |-> FALSE,
     result |-> IF self = None \/ self = << >> THEN py_str(<<"u", "n", "k", "n", "o", "w", "n">>) ELSE py_str(self)]

\* Release.startswith(prefix): prefix a string or a tuple of strings
release_startswith(self, prefix) ==
    IF self = None
    THEN [raised |-> << "AttributeError" >>, warned |-> FALSE, result |-> py_none]
    ELSE [raised |-> None, warned |-> FALSE,
          result |-> py_bool(IF prefix.type = "str" THEN startswith(self, prefix.value)
                             ELSE \E k \in 1..Len(prefix.value) :
                                      startswith(self, prefix.value[k]))]

\* what "grompp -version" can print
GromppOutputs ==
    { [out |-> << <<":", "-", ")", " ", "G", "R", "O", "M", "A", "C", "S", " ", "-", " ", "g", "m", "x", " ", "g", "r", "o", "m", "p", "p", ",", " ", "2", "0", "2", "3", ".", "2", " ", "(", "-", ":">>, <<"G", "R", "O", "M", "A", "C", "S", " ", "v", "e", "r", "s", "i", "o", "n", ":", " ", " ", " ", " ", "2", "0", "2", "3", ".", "2">>,
                  <<"P", "r", "e", "c", "i", "s", "i", "o", "n", ":", " ", " ", " ", " ", " ", " ", " ", " ", " ", " ", "m", "i", "x", "e", "d">> >>, err |-> << >>],
      [out |-> << >>, err |-> << <<"G", "R", "O", "M", "A", "C", "S", " ", "v", "e", "r", "s", "i", "o", "n", ":", " ", " ", " ", " ", "2", "0", "1", "8", ".", "8">> >>],
      [out |-> << <<"G", "r", "o", "m", "a", "c", "s", " ", "v", "e", "r", "s", "i", "o", "n", ":", " ", " ", " ", " ", "V", "E", "R", "S", "I", "O", "N", " ", "4", ".", "6", ".", "5">> >>, err |-> << >>],
      [out |-> << <<" ", " ", "G", "R", "O", "M", "A", "C", "S", " ", "v", "e", "r", "s", "i", "o", "n", ":", " ", " ", "2", "0", "1", "6", ".", "6", " ", " ">>, <<"G", "R", "O", "M", "A", "C", "S", " ", "v", "e", "r", "s", "i", "o", "n", ":", " ", "5", ".", "1", ".", "4">> >>, err |-> << >>],
      [out |-> << <<"G", "r", "o", "m", "a", "c", "s", " ", "v", "e", "r", "s", "i", "o", "n", ":", " ", "V", "E", "R", "S", "I", "O", "N">> >>, err |-> << >>],
      [out |-> << <<"E", "x", "e", "c", "u", "t", "a", "b", "l", "e", ":", " ", " ", " ", "/", "u", "s", "r", "/", "b", "i", "n", "/", "g", "m", "x">> >>, err |-> << >>],
      [out |-> << <<"g", "r", "o", "m", "a", "c", "s", " ", "v", "e", "r", "s", "i", "o", "n", ":", " ", "5", ".", "1">> >>, err |-> << >>],
      [out |-> << <<"G", "R", "O", "M", "A", "C", "S", " ", "v", "e", "r", "s", "i", "o", "n", ":">> >>, err |-> << <<"G", "R", "O", "M", "A", "C", "S", " ", "i", "s", " ", "w", "r", "i", "t", "t", "e", "n", " ", "b", "y", ":">> >>],
      [out |-> << >>, err |-> << >>] }

PrefixArgs ==
    { py_str(<<"4">>), py_str(<<"2", "0", "2", "3">>), py_tuple(<< <<"2", "0", "1", "6">>, <<"2", "0", "1", "8">>, <<"2", "0", "1", "9">> >>), py_str(<< >>) }

InitRelease ==
    /\ registry \in BuiltRegistries
    /\ config = None /\ environ = None /\ loaders = << >> /\ error = None
    /\ pc = "done"
    /\ release = [phase |-> "class", grompp |-> [out |-> << >>, err |-> << >>],
                  release |-> None, op |-> "none", raised |-> None, warned |-> FALSE,
                  result |-> py_none]
    /\ runner = None /\ cluster = {} /\ IdleMulti /\ IdleIdent

\* release = Release()
ReleaseInit ==
    /\ release.phase = "class"
    /\ \E grompp \in GromppOutputs :
          release' = [release EXCEPT !.phase = "instance", !.grompp = grompp,
                                     !.release = release_init(registry, grompp)]
    /\ UNCHANGED << toolsvars, k8svars, multi, ident >>

Observe(op, run) ==
    release' = [release EXCEPT !.op = op, !.raised = run.raised, !.warned = run.warned,
                               !.result = run.result]

\* release()
ReleaseCall ==
    /\ release.phase = "instance"
    /\ Observe("__call__", release_call(release.release))
    /\ UNCHANGED << toolsvars, k8svars, multi, ident >>

\* str(release)
ReleaseStr ==
    /\ release.phase = "instance"
    /\ Observe("__str__", release_str(release.release))
    /\ UNCHANGED << toolsvars, k8svars, multi, ident >>

\* release.startswith(prefix)
ReleaseStartswith ==
    /\ release.phase = "instance"
    /\ \E prefix \in PrefixArgs :
          Observe("startswith", release_startswith(release.release, prefix))
    /\ UNCHANGED << toolsvars, k8svars, multi, ident >>

NextRelease == ReleaseInit \/ ReleaseCall \/ ReleaseStr \/ ReleaseStartswith

SpecRelease == InitRelease /\ [][NextRelease]_vars

\* a line that reads "<G|g>romacs version: <value>", in any case of the
\* letters after the first
version_line(line) ==
    LET head == <<"g", "r", "o", "m", "a", "c", "s", " ", "v", "e", "r", "s", "i", "o", "n", ":">> IN
    /\ Len(strip(line)) > Len(head)
    /\ \A k \in 2..Len(head) : lower(strip(line)[k]) = head[k]
    /\ strip(line)[1] = "G"

\* C9: without a version line in what grompp printed, or without Grompp in
\* the registry, the release is None, and then release(), str(release)
\* and release.startswith(...) all return: release() warns and returns
\* None, str(release) is "unknown".
C9_UnsetReleaseNeverFails ==
    release.phase = "instance" =>
        /\ (\/ ~dict_has(registry, <<"G", "r", "o", "m", "p", "p">>)
            \/ \A k \in 1..Len(release.grompp.out \o release.grompp.err) :
                  ~version_line((release.grompp.out \o release.grompp.err)[k]))
           => release.release = None
        /\ (release.release = None /\ release.op # "none") =>
              /\ release.raised = None
              /\ release.op = "__call__" => release.warned /\ release.result = py_none
              /\ release.op = "__str__" => release.result = py_str(<<"u", "n", "k", "n", "o", "w", "n">>)

-----------------------------------------------------------------------------
(* tools.py: the addressable name of a discovered tool *)

\* the characters tool names are drawn from: a lower-case and an upper-case
\* letter, a digit, and the three punctuation marks of file names
NameChars == { "a", "B", "2", "-", "_", "." }

\* longest tool name tried
MaxNameLen == 3

ToolNames == UNION { [1..n -> NameChars] : n \in 1..MaxNameLen }

\* the name under which a loader registers a tool: load_v4_tools has no
\* driver, load_v5_tools appends the driver's suffix
fancy_name(name, driver, append) ==
    IF driver = None THEN make_valid_identifier(name)
    ELSE v5_fancy(name, partition_tail(driver, << "_" >>), append)

InitIdent ==
    /\ ident = [phase |-> "unseen", name |-> << >>, driver |-> None, append |-> TRUE,
                fancy |-> << >>, again |-> << >>]
    /\ IdleTools /\ runner = None /\ cluster = {} /\ IdleMulti /\ IdleRelease

\* a loader meets a tool name for the first time
Discover ==
    /\ ident.phase = "unseen"
    /\ \E name \in ToolNames, driver \in { None, gmx, gmx_d }, append \in BOOLEAN :
          ident' = [phase |-> "once", name |-> name, driver |-> driver, append |-> append,
                    fancy |-> fancy_name(name, driver, append), again |-> << >>]
    /\ UNCHANGED << toolsvars, k8svars, multi, release >>

\* discovery runs again and meets the same name from the same driver
Rediscover ==
    /\ ident.phase = "once"
    /\ ident' = [ident EXCEPT !.phase = "twice",
                              !.again = fancy_name(ident.name, ident.driver, ident.append)]
    /\ UNCHANGED << toolsvars, k8svars, multi, release >>

NextIdent == Discover \/ Rediscover

SpecIdent == InitIdent /\ [][NextIdent]_vars

is_letter(c) == LetterIndex(c, lower_letters) # 0 \/ LetterIndex(c, upper_letters) # 0
is_digit(c) == LetterIndex(c, digits) # 0

\* a Python identifier (ASCII): letters, digits and "_", not starting with a digit
is_identifier(s) ==
    /\ Len(s) > 0
    /\ \A k \in 1..Len(s) : is_letter(s[k]) \/ is_digit(s[k]) \/ s[k] = "_"
    /\ ~is_digit(s[1])

\* C10: the addressable name of a tool is a valid identifier, holds no dot
\* and no dash, starts with a capital when it starts with a letter, and is
\* the same when the tool is discovered again.
C10_AddressableNameIsIdentifier ==
    ident.phase # "unseen" =>
        /\ is_identifier(ident.fancy)
        /\ \A k \in 1..Len(ident.fancy) : ident.fancy[k] \notin { ".", "-" }
        /\ is_letter(ident.fancy[1]) => LetterIndex(ident.fancy[1], upper_letters) # 0
        /\ ident.phase = "twice" => ident.again = ident.fancy
=============================================================================
